---- MODULE Spec2Model ----
(***************************************************************************)
(* Model of HolyTree_MCP/holy_tree_server.py: the canonical ASCII tree     *)
(* file, the parser's entity graph, the generated directory tree and the   *)
(* two text mutations (add_entity_to_holy_tree, remove_entity_from_...).   *)
(*                                                                         *)
(* A line of the canonical file is a record of the parts the code's string *)
(* operations look at:                                                     *)
(*   ind    number of leading "│   " groups (0 = the line starts with the  *)
(*          branch glyph, or with its first word when there is no glyph)    *)
(*   glyph  the line has a branch glyph ├── or └──                          *)
(*   num    the dotted number after the glyph (a bare line: at the start), *)
(*          as its components; <<>> when the line carries no number        *)
(*   folder the folder glyph 📁 follows the number                          *)
(*   label  the label text, "" when absent                                 *)
(*   slash  the label is followed by "/"                                   *)
(*   cmt    the words of the trailing "# ..." comment                      *)
(* Number components are single digits, so a string prefix of a number is  *)
(* a prefix of its component sequence.                                     *)
(***************************************************************************)
EXTENDS Integers, Sequences, FiniteSets, TLC

\* ------------------------------------------------------------------ bounds
MaxLines == 2
MaxOps == 2
MaxLayers == 1

\* ------------------------------------------------------------------- lines
Ln(ind, glyph, num, folder, label, slash, cmt) ==
    [ind |-> ind, glyph |-> glyph, num |-> num, folder |-> folder,
     label |-> label, slash |-> slash, cmt |-> cmt]

BlankLine == Ln(0, FALSE, <<>>, FALSE, "", FALSE, <<>>)

\* line.strip() == ''
IsBlank(l) ==
    /\ ~l.glyph /\ l.num = <<>> /\ ~l.folder
    /\ l.label = "" /\ ~l.slash /\ l.cmt = <<>>

\* line.strip().startswith('#'): nothing stands before the comment
StartsWithHash(l) ==
    /\ l.ind = 0 /\ ~l.glyph /\ l.num = <<>> /\ ~l.folder
    /\ l.label = "" /\ ~l.slash /\ l.cmt # <<>>

\* Proper substrings among the strings of the model (a in b, a # b).
ProperSubstr ==
    { <<"Router", "Processing_Router">>, <<"Template", "Template_System">>,
      <<"System", "Template_System">> }

\* a in b, for two strings of the model
SubstrOf(a, b) == a = "" \/ a = b \/ <<a, b>> \in ProperSubstr

\* b.endswith(a)
ProperSuffix == { <<"Router", "Processing_Router">>, <<"System", "Template_System">> }

EndsWith(b, a) == a = "" \/ a = b \/ <<a, b>> \in ProperSuffix

\* The first whitespace-separated token of line.strip():
\* "bar" for │, "glyph" for ├── / └──, "num" for a dotted number, else "word".
FirstToken(l) ==
    IF l.ind > 0 THEN [kind |-> "bar", num |-> <<>>]
    ELSE IF l.glyph THEN [kind |-> "glyph", num |-> <<>>]
    ELSE IF l.num # <<>> THEN [kind |-> "num", num |-> l.num]
    ELSE [kind |-> "word", num |-> <<>>]

IsPrefix(s, t) == Len(s) <= Len(t) /\ SubSeq(t, 1, Len(s)) = s

\* ------------------------------------------------------------------ parser
\* The normalised name: re.sub(r'[^\w_]', '_', iconless).strip('_'), where
\* iconless is everything after the number with "📁 " and "/" deleted, so
\* the words of a trailing comment stay in it. A name is the sequence of
\* its words (the runs of word characters), "" standing for no name.
NameWords(l) == (IF l.label = "" THEN <<>> ELSE <<l.label>>) \o l.cmt

NoEntity == [none |-> TRUE]

\* the kind taken from the depth of the line in the drawing, not from 📁
parse_ascii_line_by_depth(l, current_path) ==
    IF ~l.glyph THEN NoEntity
    ELSE IF l.num = <<>> \/ (~l.folder /\ l.label = "" /\ ~l.slash /\ l.cmt = <<>>)
         THEN NoEntity
    ELSE IF NameWords(l) = <<>> THEN NoEntity
    ELSE [none |-> FALSE, name |-> NameWords(l),
          type |-> IF l.ind = 0 THEN "domain"
                   ELSE IF l.ind = 1 THEN "object" ELSE "layer",
          number |-> l.num, level |-> Len(l.num),
          parent_path |-> current_path, ascii_line |-> l]

\* the level taken from the nesting the parse has reached, not the number
parse_ascii_line_level_by_path(l, current_path) ==
    IF ~l.glyph THEN NoEntity
    ELSE IF l.num = <<>> \/ (~l.folder /\ l.label = "" /\ ~l.slash /\ l.cmt = <<>>)
         THEN NoEntity
    ELSE IF NameWords(l) = <<>> THEN NoEntity
    ELSE [none |-> FALSE, name |-> NameWords(l),
          type |-> IF Len(l.num) = 1 /\ l.folder THEN "domain"
                   ELSE IF Len(l.num) >= 2 /\ l.folder THEN "object"
                   ELSE "layer",
          number |-> l.num, level |-> Len(current_path) + 1,
          parent_path |-> current_path, ascii_line |-> l]

\* a number_match that takes one to three components, none of them zero
parse_ascii_line_max3(l, current_path) ==
    IF ~l.glyph THEN NoEntity
    ELSE IF l.num = <<>> \/ (~l.folder /\ l.label = "" /\ ~l.slash /\ l.cmt = <<>>)
         THEN NoEntity
    ELSE IF Len(l.num) > 3 \/ (\E k \in 1..Len(l.num) : l.num[k] = 0)
         THEN NoEntity
    ELSE IF NameWords(l) = <<>> THEN NoEntity
    ELSE [none |-> FALSE, name |-> NameWords(l),
          type |-> IF Len(l.num) = 1 /\ l.folder THEN "domain"
                   ELSE IF Len(l.num) >= 2 /\ l.folder THEN "object"
                   ELSE "layer",
          number |-> l.num, level |-> Len(l.num),
          parent_path |-> current_path, ascii_line |-> l]

parse_ascii_line(l, current_path) ==
    IF ~l.glyph THEN NoEntity
    \* number_match: a dotted number followed by white space and more text
    ELSE IF l.num = <<>> \/ (~l.folder /\ l.label = "" /\ ~l.slash /\ l.cmt = <<>>)
         THEN NoEntity
    ELSE LET entity_type ==
                 IF Len(l.num) = 1 /\ l.folder THEN "domain"
                 ELSE IF Len(l.num) >= 2 /\ l.folder THEN "object"
                 ELSE "layer"
             name == NameWords(l)
         IN  IF name = <<>> THEN NoEntity
             ELSE [none |-> FALSE, name |-> name, type |-> entity_type,
                   number |-> l.num, level |-> Len(l.num),
                   parent_path |-> current_path, ascii_line |-> l]

\* self.entities[entity.number] = entity on a dict that keeps insertion
\* order: a number seen before keeps its place and takes the new value.
RECURSIVE PutAt(_, _, _)
PutAt(ents, e, i) ==
    IF i > Len(ents) THEN Append(ents, e)
    ELSE IF ents[i].number = e.number THEN [ents EXCEPT ![i] = e]
    ELSE PutAt(ents, e, i + 1)

DictPut(ents, e) == PutAt(ents, e, 1)

NextPath(current_path, e) ==
    IF e.type = "domain" THEN <<e.number>>
    ELSE IF e.type = "object" THEN << <<e.number[1]>>, e.number >>
    ELSE IF Len(current_path) >= 2
         THEN <<current_path[1], current_path[2], e.number>>
    ELSE current_path

StripNone(e) == [x \in DOMAIN e \ {"none"} |-> e[x]]

\* a parse that gives up at the first line that yields no entity
RECURSIVE ParseFromUntilBad(_, _, _, _)
ParseFromUntilBad(lines, i, ents, current_path) ==
    IF i > Len(lines) THEN ents
    ELSE IF IsBlank(lines[i]) \/ StartsWithHash(lines[i])
         THEN ParseFromUntilBad(lines, i + 1, ents, current_path)
    ELSE LET e == parse_ascii_line(lines[i], current_path)
         IN  IF e.none THEN ents
             ELSE ParseFromUntilBad(lines, i + 1, DictPut(ents, StripNone(e)),
                                    NextPath(current_path, e))

RECURSIVE ParseFrom(_, _, _, _)
ParseFrom(lines, i, ents, current_path) ==
    IF i > Len(lines) THEN ents
    ELSE IF IsBlank(lines[i]) \/ StartsWithHash(lines[i])
         THEN ParseFrom(lines, i + 1, ents, current_path)
    ELSE LET e == parse_ascii_line(lines[i], current_path)
         IN  IF e.none THEN ParseFrom(lines, i + 1, ents, current_path)
             ELSE ParseFrom(lines, i + 1, DictPut(ents, StripNone(e)),
                            NextPath(current_path, e))

\* The entity graph parse_holy_tree builds from the text.
parse_holy_tree(lines) == ParseFrom(lines, 1, <<>>, <<>>)

get_entity_by_number(ents, number) ==
    LET hit == {i \in 1..Len(ents) : ents[i].number = number}
    IN  IF hit = {} THEN NoEntity
        ELSE LET i == CHOOSE i \in hit : TRUE
             IN  [none |-> FALSE, name |-> ents[i].name]

\* [e for e in self.entities.values() if e.level == level]
get_entities_by_level(ents, level) == SelectSeq(ents, LAMBDA e : e.level = level)

\* '.'.join(number.split('.')[:-1])
ParentNumber(number) == SubSeq(number, 1, Len(number) - 1)

\* "Missing parent for {number}: parent {parent_number} not found"
MissingParentIssue(number) ==
    [kind |-> "missing_parent", number |-> number, parent |-> ParentNumber(number)]

\* The first loop of validate_holy_tree_structure: one issue, in dict order,
\* for each entity of level > 1 whose parent_number is no key of the dict.
missing_parent_issues(ents) ==
    LET orphans == SelectSeq(ents, LAMBDA e :
                       /\ e.level > 1
                       /\ get_entity_by_number(ents, ParentNumber(e.number)).none)
    IN  [i \in 1..Len(orphans) |-> MissingParentIssue(orphans[i].number)]

\* validate_holy_tree_structure(). The second loop calls num.match(...) on
\* the str num, which has no such attribute: the first level-1 entity makes
\* the call raise AttributeError, and nothing catches it. The score is the
\* number in the string f"{100 - len(issues) * 10}%".
validate_holy_tree_structure(ents) ==
    LET issues == missing_parent_issues(ents)
        domain_numbers == get_entities_by_level(ents, 1)
    IN  IF domain_numbers # <<>>
        THEN [raised |-> TRUE, valid |-> FALSE, issues |-> <<>>, integrity_score |-> 0]
        ELSE [raised |-> FALSE, valid |-> Len(issues) = 0, issues |-> issues,
              integrity_score |-> 100 - Len(issues) * 10]

\* -------------------------------------------------------------- filesystem
\* A path is the sequence of its segments below project_root (<<>> is
\* project_root itself). fs.dirs are the directories that exist, fs.files
\* the paths taken by a regular file, fs.readmes the README.md files written
\* (directory and the entity name in the text).
Prefixes(p) == {SubSeq(p, 1, k) : k \in 0..Len(p)}

ProperPrefixes(p) == Prefixes(p) \ {p}

\* exists() taken for is_file(): a directory never counts as present
exists_files_only(fs, p) ==
    /\ p \in fs.files
    /\ ProperPrefixes(p) \cap fs.files = {}

\* Path.exists()
exists(fs, p) ==
    /\ p \in fs.dirs \cup fs.files
    /\ ProperPrefixes(p) \cap fs.files = {}

\* Path.mkdir(parents=True, exist_ok=True) raises when a regular file is in
\* the way (NotADirectoryError, FileExistsError)
MkdirRaises(fs, p) == Prefixes(p) \cap fs.files # {}

\* mkdir applied to dir_path.parent: the directory itself is not made
mkdir_parent_only(fs, p) == [fs EXCEPT !.dirs = @ \cup ProperPrefixes(p)]

mkdir(fs, p) == [fs EXCEPT !.dirs = @ \cup Prefixes(p)]

\* readme_path.write_text(...) in _generate_basic_files
generate_basic_files(fs, entity, p) ==
    [fs EXCEPT !.readmes = {r \in @ : r.path # p}
                           \cup {[path |-> p, name |-> entity.name]}]

\* ---------------------------------------------------------------- generator
construct_directory_path(ents, entity) ==
    IF entity.type = "domain" THEN <<entity.name>>
    ELSE IF entity.type = "object"
         THEN LET domain_entity == get_entity_by_number(ents, <<entity.number[1]>>)
              IN  IF ~domain_entity.none THEN <<domain_entity.name, entity.name>>
                  ELSE <<>>
    ELSE IF Len(entity.number) >= 2
         THEN LET domain_entity == get_entity_by_number(ents, <<entity.number[1]>>)
                  object_entity ==
                      get_entity_by_number(ents, SubSeq(entity.number, 1, 2))
              IN  IF ~domain_entity.none /\ ~object_entity.none
                  THEN <<domain_entity.name, object_entity.name, entity.name>>
                  ELSE <<>>
    ELSE <<>>

\* the loop with 'layer' left out of the types that get a directory
RECURSIVE GenFromNoLayers(_, _, _, _, _, _)
GenFromNoLayers(ents, i, create_mode, fs, created, generated) ==
    IF i > Len(ents)
    THEN [success |-> TRUE, fs |-> fs, created |-> created, generated |-> generated]
    ELSE LET dir_path == construct_directory_path(ents, ents[i])
         IN  IF ents[i].type # "layer" /\ (create_mode = "full" \/ ~exists(fs, dir_path))
             THEN IF MkdirRaises(fs, dir_path)
                  THEN [success |-> FALSE, fs |-> fs, created |-> created,
                        generated |-> generated]
                  ELSE GenFromNoLayers(ents, i + 1, create_mode,
                           generate_basic_files(mkdir(fs, dir_path), ents[i], dir_path),
                           Append(created, dir_path), Append(generated, dir_path))
             ELSE GenFromNoLayers(ents, i + 1, create_mode, fs, created, generated)

\* The loop of generate_project_from_holy_tree over self.parser.entities,
\* from entity i on; an exception ends it with what was done so far.
RECURSIVE GenFrom(_, _, _, _, _, _)
GenFrom(ents, i, create_mode, fs, created, generated) ==
    IF i > Len(ents)
    THEN [success |-> TRUE, fs |-> fs, created |-> created, generated |-> generated]
    ELSE LET entity == ents[i]
             dir_path == construct_directory_path(ents, entity)
         IN  IF create_mode = "full" \/ ~exists(fs, dir_path)
             THEN IF MkdirRaises(fs, dir_path)
                  THEN [success |-> FALSE, fs |-> fs, created |-> created,
                        generated |-> generated]
                  ELSE LET fs1 == mkdir(fs, dir_path)
                           fs2 == IF entity.type \in {"domain", "object"}
                                  THEN generate_basic_files(fs1, entity, dir_path)
                                  ELSE fs1
                           gen2 == IF entity.type \in {"domain", "object"}
                                   THEN Append(generated, dir_path)
                                   ELSE generated
                       IN  GenFrom(ents, i + 1, create_mode, fs2,
                                   Append(created, dir_path), gen2)
             ELSE GenFrom(ents, i + 1, create_mode, fs, created, generated)

Max(a, b) == IF a >= b THEN a ELSE b

\* the check of expected directories with 'layer' left out of the types
missing_directories_no_layers(ents, fs) ==
    LET checked == SelectSeq(ents, LAMBDA e : e.type # "layer")
    IN  SelectSeq([i \in 1..Len(checked) |-> construct_directory_path(ents, checked[i])],
                  LAMBDA p : ~exists(fs, p))

\* the check with is_dir() in place of exists()
missing_directories_is_dir(ents, fs) ==
    SelectSeq([i \in 1..Len(ents) |-> construct_directory_path(ents, ents[i])],
              LAMBDA p : p \notin fs.dirs)

\* validate_project_structure, after its parse: the missing directories
missing_directories(ents, fs) ==
    SelectSeq([i \in 1..Len(ents) |-> construct_directory_path(ents, ents[i])],
              LAMBDA p : ~exists(fs, p))

consistency_score(missing) ==
    IF missing # <<>> THEN Max(0, 100 - Len(missing) * 5) ELSE 100

\* "validate" taken for "incremental": the missing directories are made
generate_validate_creates(lines, fs, create_mode) ==
    LET ents == parse_holy_tree(lines)
        g == GenFrom(ents, 1, IF create_mode = "validate" THEN "incremental"
                              ELSE create_mode, fs, <<>>, <<>>)
    IN  [entities |-> ents, fs |-> g.fs, success |-> g.success,
         created |-> IF g.success THEN g.created ELSE <<>>,
         generated |-> IF g.success THEN g.generated ELSE <<>>,
         missing |-> IF create_mode = "validate" THEN missing_directories(ents, fs)
                     ELSE <<>>,
         score |-> 100]

\* a pass that undoes what it made when a later creation fails
generate_with_rollback(lines, fs, create_mode) ==
    LET ents == parse_holy_tree(lines)
    IN  IF create_mode = "validate"
        THEN LET missing == missing_directories(ents, fs)
             IN  [entities |-> ents, fs |-> fs, success |-> missing = <<>>,
                  created |-> <<>>, generated |-> <<>>, missing |-> missing,
                  score |-> consistency_score(missing)]
        ELSE LET g == GenFrom(ents, 1, create_mode, fs, <<>>, <<>>)
             IN  [entities |-> ents, fs |-> IF g.success THEN g.fs ELSE fs,
                  success |-> g.success,
                  created |-> IF g.success THEN g.created ELSE <<>>,
                  generated |-> IF g.success THEN g.generated ELSE <<>>,
                  missing |-> <<>>, score |-> 100]

\* generate_project_from_holy_tree(create_mode) on the text `lines`:
\* the graph it leaves in the parser, the filesystem and the result.
generate_project_from_holy_tree(lines, fs, create_mode) ==
    LET ents == parse_holy_tree(lines)
    IN  IF create_mode = "validate"
        THEN LET missing == missing_directories(ents, fs)
             IN  [entities |-> ents, fs |-> fs, success |-> missing = <<>>,
                  created |-> <<>>, generated |-> <<>>, missing |-> missing,
                  score |-> consistency_score(missing)]
        ELSE LET g == GenFrom(ents, 1, create_mode, fs, <<>>, <<>>)
             IN  [entities |-> ents, fs |-> g.fs, success |-> g.success,
                  created |-> IF g.success THEN g.created ELSE <<>>,
                  generated |-> IF g.success THEN g.generated ELSE <<>>,
                  missing |-> <<>>, score |-> 100]

\* ------------------------------------------------------------ text mutation
\* Positions are the code's 0-based list indices; lines[i + 1] is lines[i]
\* of the code. NotFound is the code's -1.
NotFound == 0 - 1

\* f'{domain}/' in line
DomainSlashIn(l, domain) == l.slash /\ EndsWith(l.label, domain)

\* proposed_number.startswith(line.strip().split()[0])
NumberStartsWith(proposed_number, tok) ==
    tok.kind = "num" /\ IsPrefix(tok.num, proposed_number)

\* re.match(r'^\d+$', line_parts[0])
IsBareInteger(tok) == tok.kind = "num" /\ Len(tok.num) = 1

\* lines[i].strip().startswith('├── ') or ...startswith('└── ')
StartsWithGlyph(l) ==
    /\ l.ind = 0 /\ l.glyph
    /\ (l.num # <<>> \/ l.folder \/ l.label # "" \/ l.slash \/ l.cmt # <<>>)

\* for i, line in enumerate(lines): the first loop, which looks for a line
\* that names the domain and whose first token starts proposed_number
RECURSIVE FirstNumbered(_, _, _, _)
FirstNumbered(lines, i, domain, proposed_number) ==
    IF i >= Len(lines) THEN NotFound
    ELSE IF /\ DomainSlashIn(lines[i + 1], domain)
            /\ NumberStartsWith(proposed_number, FirstToken(lines[i + 1]))
         THEN i
    ELSE FirstNumbered(lines, i + 1, domain, proposed_number)

\* the second loop: the first line that names the domain
RECURSIVE DomainStart(_, _, _)
DomainStart(lines, i, domain) ==
    IF i >= Len(lines) THEN NotFound
    ELSE IF DomainSlashIn(lines[i + 1], domain) THEN i
    ELSE DomainStart(lines, i + 1, domain)

\* for i in range(domain_start + 1, len(lines)): ... of the domain-end scan
RECURSIVE DomainEnd(_, _, _)
DomainEnd(lines, i, insert_index) ==
    IF i >= Len(lines) THEN insert_index
    ELSE IF StartsWithGlyph(lines[i + 1]) /\ IsBareInteger(FirstToken(lines[i + 1]))
         THEN i
    ELSE DomainEnd(lines, i + 1, i + 1)

find_insert_index(lines, domain, proposed_number) ==
    LET first == FirstNumbered(lines, 0, domain, proposed_number)
        domain_start == DomainStart(lines, 0, domain)
    IN  IF first # NotFound THEN first + 1
        ELSE IF domain_start # NotFound
             THEN DomainEnd(lines, domain_start + 1, domain_start + 1)
        ELSE NotFound

\* list.insert(index, x)
ListInsert(lines, index, x) ==
    LET k == IF index > Len(lines) THEN Len(lines) ELSE index
    IN  SubSeq(lines, 1, k) \o <<x>> \o SubSeq(lines, k + 1, Len(lines))

ObjectLine(cfg) ==
    Ln(1, TRUE, cfg.proposed_number, TRUE, cfg.entity_name, TRUE,
       <<"Object">> \o cfg.description)

LayerLine(cfg, i) ==
    Ln(2, TRUE, Append(cfg.proposed_number, i), FALSE, cfg.layers[i], TRUE,
       <<"Layer", ToString(i), cfg.layers[i]>>)

DomainLine(cfg) ==
    Ln(0, TRUE, cfg.proposed_number, TRUE, cfg.entity_name, TRUE,
       <<"DOMAIN">> \o cfg.description)

ReadmeLine ==
    Ln(1, TRUE, <<>>, FALSE, "README.md", FALSE, <<"Domain", "constitution", "document">>)

RECURSIVE InsertLayersAtIndex(_, _, _, _)
\* the layer loop inserting at insert_index itself, not at insert_index + 1
InsertLayersAtIndex(lines, cfg, insert_index, i) ==
    IF i = 0 THEN lines
    ELSE InsertLayersAtIndex(ListInsert(lines, insert_index, LayerLine(cfg, i)),
                             cfg, insert_index, i - 1)

\* for layer_line in reversed(layer_lines): lines.insert(insert_index + 1, ...)
RECURSIVE InsertLayers(_, _, _, _)
InsertLayers(lines, cfg, insert_index, i) ==
    IF i = 0 THEN lines
    ELSE InsertLayers(ListInsert(lines, insert_index + 1, LayerLine(cfg, i)),
                      cfg, insert_index, i - 1)

ascii_line_of(cfg) ==
    IF Len(cfg.proposed_number) = 2 THEN ObjectLine(cfg) ELSE DomainLine(cfg)

splice_entity(lines, cfg, insert_index) ==
    IF Len(cfg.proposed_number) = 2
    THEN InsertLayers(ListInsert(lines, insert_index, ObjectLine(cfg)),
                      cfg, insert_index, Len(cfg.layers))
    ELSE ListInsert(ListInsert(lines, insert_index, DomainLine(cfg)),
                    insert_index + 1, ReadmeLine)

\* the required-field check with only entity_name tested
MissingRequiredNameOnly(cfg) == cfg.entity_name = ""

MissingRequired(cfg) ==
    cfg.entity_name = "" \/ cfg.domain = "" \/ cfg.proposed_number = <<>>

\* entity_name in line and ('📁' in line or '/' in line)
NameIn(l, entity_name) ==
    \/ SubstrOf(entity_name, l.label)
    \/ \E k \in 1..Len(l.cmt) : SubstrOf(entity_name, l.cmt[k])

IsEntityStart(l, entity_name) == NameIn(l, entity_name) /\ (l.folder \/ l.slash)

\* re.search(r'^\d+\.?\d*', check_line.split()[0])
StartsWithNumber(tok) == tok.kind = "num"

\* for check_line_num in range(line_num, len(lines)): the indices collected
RECURSIVE CollectFrom(_, _, _)
CollectFrom(lines, i, collected) ==
    IF i >= Len(lines) THEN collected
    ELSE IF IsBlank(lines[i + 1]) THEN CollectFrom(lines, i + 1, collected)
    ELSE IF StartsWithNumber(FirstToken(lines[i + 1])) THEN collected
    ELSE CollectFrom(lines, i + 1, Append(collected, i))

\* for line_num, line in enumerate(lines): the first matching line
RECURSIVE EntityStartFrom(_, _, _)
EntityStartFrom(lines, i, entity_name) ==
    IF i >= Len(lines) THEN NotFound
    ELSE IF IsEntityStart(lines[i + 1], entity_name) THEN i
    ELSE EntityStartFrom(lines, i + 1, entity_name)

entity_start_line(lines, entity_name) == EntityStartFrom(lines, 0, entity_name)

lines_to_remove(lines, entity_name) ==
    LET start == entity_start_line(lines, entity_name)
    IN  IF start = NotFound THEN <<>> ELSE CollectFrom(lines, start, <<>>)

\* for line_num in reversed(sorted(set(lines_to_remove))): lines.pop(line_num)
PopAll(lines, indices) ==
    LET gone == {indices[k] + 1 : k \in 1..Len(indices)}
    IN  SelectSeq([k \in 1..Len(lines) |-> [at |-> k, line |-> lines[k]]],
                  LAMBDA x : x.at \notin gone)

remove_lines(lines, entity_name) ==
    LET kept == PopAll(lines, lines_to_remove(lines, entity_name))
    IN  [k \in 1..Len(kept) |-> kept[k].line]

\* ----------------------------------------------------------------- handlers
\* What a handler returns. returned = FALSE: the handler fell off its end
\* and returned None.
Result(returned, success, error) ==
    [returned |-> returned, success |-> success, error |-> error,
     generated |-> FALSE, created |-> <<>>, lines_removed |-> 0,
     missing |-> <<>>, score |-> 100]

\* add_entity_to_holy_tree(entity_config), run from start to end on the
\* text `lines`, the parser's graph `ents` and the filesystem `fs`.
add_entity_to_holy_tree(lines, ents, fs, cfg) ==
    IF MissingRequired(cfg)
    THEN [file |-> lines, entities |-> ents, fs |-> fs,
          res |-> Result(TRUE, FALSE, TRUE)]
    ELSE LET insert_index == find_insert_index(lines, cfg.domain, cfg.proposed_number)
         IN  IF insert_index = NotFound
             THEN [file |-> lines, entities |-> ents, fs |-> fs,
                   res |-> Result(FALSE, FALSE, FALSE)]
             ELSE LET updated == splice_entity(lines, cfg, insert_index)
                      g == generate_project_from_holy_tree(updated, fs, "incremental")
                  IN  [file |-> updated, entities |-> g.entities, fs |-> g.fs,
                       res |-> [Result(TRUE, TRUE, FALSE) EXCEPT
                                   !.generated = g.success, !.created = g.created]]

ArchivePath(entity_name) == << <<"archived">>, <<entity_name>> >>

\* The cleanup step of remove_entity_from_holy_tree: only "archive" touches
\* the filesystem (archive_path.mkdir); ok = FALSE when that raises.
cleanup(fs, entity_name, cleanup_mode) ==
    IF cleanup_mode = "archive"
    THEN IF MkdirRaises(fs, ArchivePath(entity_name))
         THEN [ok |-> FALSE, fs |-> fs]
         ELSE [ok |-> TRUE, fs |-> mkdir(fs, ArchivePath(entity_name))]
    ELSE [ok |-> TRUE, fs |-> fs]

\* remove_entity_from_holy_tree(entity_name, cleanup_mode), from start to end.
remove_entity_from_holy_tree(lines, ents, fs, entity_name, cleanup_mode) ==
    IF entity_start_line(lines, entity_name) = NotFound
    THEN [file |-> lines, entities |-> ents, fs |-> fs,
          res |-> Result(TRUE, FALSE, TRUE)]
    ELSE LET updated == remove_lines(lines, entity_name)
             c == cleanup(fs, entity_name, cleanup_mode)
         IN  [file |-> updated, entities |-> ents, fs |-> c.fs,
              res |-> IF c.ok
                      THEN [Result(TRUE, TRUE, FALSE) EXCEPT
                               !.lines_removed = Len(lines_to_remove(lines, entity_name))]
                      ELSE Result(TRUE, FALSE, TRUE)]

\* ------------------------------------------------------------------ inputs
O42 == Ln(1, TRUE, <<4, 2>>, TRUE, "Processing_Router", TRUE, <<>>)
L421 == Ln(2, TRUE, <<4, 2, 1>>, FALSE, "Config", TRUE, <<>>)
D5 == Ln(0, TRUE, <<5>>, TRUE, "Template_System", TRUE, <<>>)
\* "5 Template_System/": a line without a branch glyph
Bare5 == Ln(0, FALSE, <<5>>, FALSE, "Template_System", TRUE, <<>>)

LineAlphabet == {O42, L421, D5, Bare5, BlankLine}

InitTexts == UNION {[1..n -> LineAlphabet] : n \in 0..MaxLines}

NoFs == [dirs |-> {}, files |-> {}, readmes |-> {}]

\* project_root exists, and a regular file stands where the directory of
\* the Template_System domain would go and another where that of an added
\* domain New_Domain would go
BlockedFs ==
    [dirs |-> {<<>>},
     files |-> {<< <<"Template_System">> >>, << <<"New_Domain", "DOMAIN", "desc">> >>},
     readmes |-> {}]

InitFs == {NoFs, BlockedFs}

\* layers defaults to ["Config", "Toolbox", "Core", "Api", "Tests"]
DefaultLayers == <<"Config", "Toolbox", "Core", "Api", "Tests">>

LayerLists == {SubSeq(DefaultLayers, 1, k) : k \in 0..MaxLayers}

Cfg(entity_name, domain, proposed_number, layers) ==
    [entity_name |-> entity_name, domain |-> domain,
     proposed_number |-> proposed_number, layers |-> layers,
     description |-> <<"desc">>]

NoCfg == Cfg("", "", <<>>, <<>>)

Configs ==
    {Cfg("New_Object", "Template_System", <<5, 4>>, ls) : ls \in LayerLists}
    \cup {Cfg("New_Domain", "Template_System", <<6>>, <<>>),
          Cfg("New_Object", "Nowhere", <<5, 4>>, <<>>),
          Cfg("", "Template_System", <<5, 4>>, <<>>),
          Cfg("New_Object", "", <<5, 4>>, <<>>),
          Cfg("New_Object", "Template_System", <<>>, <<>>)}

RemoveNames == {"Processing_Router", "New_Object"}

CleanupModes == {"archive", "delete", "preserve"}

CreateModes == {"incremental", "full", "validate"}

\* ------------------------------------------------------------------- state
Procs == {1, 2}

\* The server whose handlers run one after another in Spec.
Server == 1

VARIABLES
    file,      \* the lines of the canonical file
    entities,  \* entities[p]: parser.entities of server process p, in dict order
    fs,        \* the filesystem below project_root
    hist,      \* the last two completed handler calls and the states before them
    proc       \* proc[p]: where process p stands in a handler (SpecConc)

vars == <<file, entities, fs, hist, proc>>

Snapshot == [file |-> file, entities |-> entities[Server], fs |-> fs]

Call(op, cfg, name, mode, res) ==
    [op |-> op, cfg |-> cfg, name |-> name, mode |-> mode, res |-> res]

NoCall == Call("none", NoCfg, "", "", Result(FALSE, FALSE, FALSE))

\* A process outside any handler. lines is the text its handler read,
\* updated the text it is writing back, lock whether the asyncio.Lock() its
\* call created is held, overlap the processes that were inside their write
\* when this one's parse read the file.
IdleProc ==
    [pc |-> "idle", call |-> NoCall, lines |-> <<>>, updated |-> <<>>,
     lock |-> FALSE, overlap |-> {}]

Init ==
    /\ file \in InitTexts
    /\ entities = [p \in Procs |-> <<>>]
    /\ fs \in InitFs
    /\ hist = [nops |-> 0, last |-> NoCall, prev |-> NoCall,
               pre |-> [file |-> file, entities |-> <<>>, fs |-> fs],
               pre2 |-> [file |-> file, entities |-> <<>>, fs |-> fs]]
    /\ proc = [p \in Procs |-> IdleProc]

\* The history once the handler call `call` has completed.
Recorded(call) ==
    [nops |-> hist.nops + 1, last |-> call, prev |-> hist.last,
     pre |-> Snapshot, pre2 |-> hist.pre]

\* analyze_holy_tree()
Analyze ==
    /\ hist.nops < MaxOps
    /\ entities' = [entities EXCEPT ![Server] = parse_holy_tree(file)]
    /\ hist' = Recorded(Call("analyze", NoCfg, "", "", Result(TRUE, TRUE, FALSE)))
    /\ UNCHANGED <<file, fs, proc>>

\* generate_project_structure(create_mode)
Generate ==
    \E create_mode \in CreateModes :
        LET g == generate_project_from_holy_tree(file, fs, create_mode)
        IN  /\ hist.nops < MaxOps
            /\ entities' = [entities EXCEPT ![Server] = g.entities]
            /\ fs' = g.fs
            /\ hist' = Recorded(Call("generate", NoCfg, "", create_mode,
                                     [Result(TRUE, g.success, ~g.success) EXCEPT
                                         !.created = g.created,
                                         !.missing = g.missing,
                                         !.score = g.score]))
            /\ UNCHANGED <<file, proc>>

\* add_entity_to_holy_tree(entity_config)
Add ==
    \E cfg \in Configs :
        LET r == add_entity_to_holy_tree(file, entities[Server], fs, cfg)
        IN  /\ hist.nops < MaxOps
            /\ file' = r.file
            /\ entities' = [entities EXCEPT ![Server] = r.entities]
            /\ fs' = r.fs
            /\ hist' = Recorded(Call("add", cfg, "", "", r.res))
            /\ UNCHANGED proc

\* remove_entity_from_holy_tree(entity_name, cleanup_mode)
Remove ==
    \E entity_name \in RemoveNames, cleanup_mode \in CleanupModes :
        LET r == remove_entity_from_holy_tree(file, entities[Server], fs,
                                              entity_name, cleanup_mode)
        IN  /\ hist.nops < MaxOps
            /\ file' = r.file
            /\ entities' = [entities EXCEPT ![Server] = r.entities]
            /\ fs' = r.fs
            /\ hist' = Recorded(Call("remove", NoCfg, entity_name, cleanup_mode, r.res))
            /\ UNCHANGED proc

Next == Analyze \/ Generate \/ Add \/ Remove

Spec == Init /\ [][Next]_vars

\* ------------------------------------------------- two server processes
\* SpecConc: two server processes (each its own HolyTreeMCPServer, parser
\* and graph) work on the same canonical file and project root. A handler
\* is cut at its file operations: read_text, the open and the close of
\* write_text (the open truncates the file; the buffered text reaches it at
\* the close), and the read_text of the re-parse.
ConcTexts == {<<D5>>, <<D5, O42>>}

ConcConfigs ==
    {Cfg("New_Object", "Template_System", <<5, 4>>, <<>>),
     Cfg("New_Domain", "Template_System", <<6>>, <<>>),
     Cfg("", "Template_System", <<5, 4>>, <<>>),
     Cfg("New_Object", "Nowhere", <<5, 4>>, <<>>)}

InitConc ==
    /\ file \in ConcTexts
    /\ entities = [p \in Procs |-> <<>>]
    /\ fs = NoFs
    /\ hist = [nops |-> 0, last |-> NoCall, prev |-> NoCall,
               pre |-> [file |-> file, entities |-> <<>>, fs |-> fs],
               pre2 |-> [file |-> file, entities |-> <<>>, fs |-> fs]]
    /\ proc = [p \in Procs |-> IdleProc]

\* The processes that have opened the file for writing and not closed it.
Writers == {q \in Procs : proc[q].pc \in {"add_writing", "remove_writing"}}

\* What the file holds once a writer closes: its text from offset 0 on, over
\* whatever another writer put there since this one's open truncated it.
Overwrite(text, old) == text \o SubSeq(old, Len(text) + 1, Len(old))

Returns(p, res) ==
    [proc[p] EXCEPT !.pc = "done", !.call = [@ EXCEPT !.res = res]]

\* add_entity_to_holy_tree up to its read_text (lines 391-403)
AddRead(p) ==
    \E cfg \in ConcConfigs :
        /\ proc[p].pc = "idle"
        /\ proc' = [proc EXCEPT ![p] =
               IF MissingRequired(cfg)
               THEN [@ EXCEPT !.pc = "done",
                              !.call = Call("add", cfg, "", "", Result(TRUE, FALSE, TRUE))]
               ELSE [@ EXCEPT !.pc = "add_read", !.lines = file,
                              !.call = Call("add", cfg, "", "", NoCall.res)]]
        /\ UNCHANGED <<file, entities, fs, hist>>

\* the edit and the open of write_text under a new asyncio.Lock() (405-454)
AddWriteBegin(p) ==
    /\ proc[p].pc = "add_read"
    /\ ~proc[p].lock
    /\ LET cfg == proc[p].call.cfg
           insert_index == find_insert_index(proc[p].lines, cfg.domain,
                                             cfg.proposed_number)
       IN  IF insert_index = NotFound
           THEN /\ proc' = [proc EXCEPT ![p] = Returns(p, Result(FALSE, FALSE, FALSE))]
                /\ UNCHANGED file
           ELSE /\ proc' = [proc EXCEPT ![p] =
                       [@ EXCEPT !.pc = "add_writing", !.lock = TRUE,
                                 !.updated = splice_entity(proc[p].lines, cfg,
                                                           insert_index)]]
                /\ file' = <<>>
    /\ UNCHANGED <<entities, fs, hist>>

\* the close of write_text and the release of the call's lock (454, 507)
WriteEnd(p) ==
    /\ proc[p].pc \in {"add_writing", "remove_writing"}
    /\ file' = Overwrite(proc[p].updated, file)
    /\ proc' = [proc EXCEPT ![p] =
           [@ EXCEPT !.pc = IF @ = "add_writing" THEN "add_written"
                            ELSE "remove_written",
                     !.lock = FALSE]]
    /\ UNCHANGED <<entities, fs, hist>>

\* generate_project_structure("incremental") and the return (457-466)
AddReconcile(p) ==
    /\ proc[p].pc = "add_written"
    /\ LET g == generate_project_from_holy_tree(file, fs, "incremental")
       IN  /\ entities' = [entities EXCEPT ![p] = g.entities]
           /\ fs' = g.fs
           /\ proc' = [proc EXCEPT ![p] =
                  [Returns(p, [Result(TRUE, TRUE, FALSE) EXCEPT
                                  !.generated = g.success, !.created = g.created])
                   EXCEPT !.overlap = Writers \ {p}]]
    /\ UNCHANGED <<file, hist>>

\* remove_entity_from_holy_tree up to its read_text (475-477)
RemoveRead(p) ==
    \E entity_name \in RemoveNames, cleanup_mode \in {"archive", "delete"} :
        /\ proc[p].pc = "idle"
        /\ proc' = [proc EXCEPT ![p] =
               [@ EXCEPT !.pc = "remove_read", !.lines = file,
                         !.call = Call("remove", NoCfg, entity_name, cleanup_mode,
                                       NoCall.res)]]
        /\ UNCHANGED <<file, entities, fs, hist>>

\* the collection of the lines and the open of write_text (479-507)
RemoveWriteBegin(p) ==
    /\ proc[p].pc = "remove_read"
    /\ ~proc[p].lock
    /\ IF entity_start_line(proc[p].lines, proc[p].call.name) = NotFound
       THEN /\ proc' = [proc EXCEPT ![p] = Returns(p, Result(TRUE, FALSE, TRUE))]
            /\ UNCHANGED file
       ELSE /\ proc' = [proc EXCEPT ![p] =
                   [@ EXCEPT !.pc = "remove_writing", !.lock = TRUE,
                             !.updated = remove_lines(proc[p].lines, proc[p].call.name)]]
            /\ file' = <<>>
    /\ UNCHANGED <<entities, fs, hist>>

\* the cleanup modes and the return (509-533)
RemoveCleanup(p) ==
    /\ proc[p].pc = "remove_written"
    /\ LET c == cleanup(fs, proc[p].call.name, proc[p].call.mode)
       IN  /\ fs' = c.fs
           /\ proc' = [proc EXCEPT ![p] =
                  Returns(p, IF c.ok
                             THEN [Result(TRUE, TRUE, FALSE) EXCEPT !.lines_removed =
                                      Len(lines_to_remove(proc[p].lines,
                                                          proc[p].call.name))]
                             ELSE Result(TRUE, FALSE, TRUE))]
    /\ UNCHANGED <<file, entities, hist>>

\* analyze_holy_tree(): parse_holy_tree's read_text and parse (63-93)
AnalyzeRead(p) ==
    /\ proc[p].pc = "idle"
    /\ entities' = [entities EXCEPT ![p] = parse_holy_tree(file)]
    /\ proc' = [proc EXCEPT ![p] =
           [@ EXCEPT !.pc = "done", !.overlap = Writers \ {p},
                     !.call = Call("analyze", NoCfg, "", "",
                                   Result(TRUE, TRUE, FALSE))]]
    /\ UNCHANGED <<file, fs, hist>>

NextConc ==
    \E p \in Procs :
        \/ AddRead(p) \/ AddWriteBegin(p) \/ WriteEnd(p) \/ AddReconcile(p)
        \/ RemoveRead(p) \/ RemoveWriteBegin(p) \/ RemoveCleanup(p)
        \/ AnalyzeRead(p)

SpecConc == InitConc /\ [][NextConc]_vars

\* ------------------------------------------- generation and validation
\* SpecGen: the generator and the validator on texts that hold whole
\* Domain / Object / Layer trees, over a project root that is empty, holds
\* regular files where directories would go, or holds a directory that no
\* entity of the text accounts for.
D4 == Ln(0, TRUE, <<4>>, TRUE, "Routing_Engine", TRUE, <<>>)
\* "│   ├── 4.2 Config/": a two-component number on a line without 📁
P42 == Ln(1, TRUE, <<4, 2>>, FALSE, "Config", TRUE, <<>>)

GenAlphabet == {D4, O42, L421, P42, D5}

GenTexts == UNION {[1..n -> GenAlphabet] : n \in 0..(MaxLines + 1)}

StaleFs == [dirs |-> {<<>>, << <<"Old_Module">> >>}, files |-> {}, readmes |-> {}]

GenFs == {NoFs, BlockedFs, StaleFs}

InitGen ==
    /\ file \in GenTexts
    /\ entities = [p \in Procs |-> <<>>]
    /\ fs \in GenFs
    /\ hist = [nops |-> 0, last |-> NoCall, prev |-> NoCall,
               pre |-> [file |-> file, entities |-> <<>>, fs |-> fs],
               pre2 |-> [file |-> file, entities |-> <<>>, fs |-> fs]]
    /\ proc = [p \in Procs |-> IdleProc]

\* What a call of validate_holy_tree_structure gave: returned is false and
\* error true when the call raised.
ValidateResult(v) ==
    [returned |-> ~v.raised, success |-> v.valid, error |-> v.raised,
     generated |-> FALSE, created |-> <<>>, lines_removed |-> 0,
     missing |-> <<>>, score |-> v.integrity_score, issues |-> v.issues]

\* parser.validate_holy_tree_structure() on the graph of the last parse
Validate ==
    LET v == validate_holy_tree_structure(entities[Server])
    IN  /\ hist.nops < MaxOps
        /\ hist' = Recorded(Call("validate", NoCfg, "", "", ValidateResult(v)))
        /\ UNCHANGED <<file, entities, fs, proc>>

NextGen == Analyze \/ Generate \/ Validate

SpecGen == InitGen /\ [][NextGen]_vars

\* SpecValidate: the validator on long texts of entities without parents.
MaxOrphans == 11

\* line i of such a text: the Layer 4.i.1 or the Object 4.i
OrphanLine(kind, i) ==
    IF kind = "layer" THEN Ln(2, TRUE, <<4, i, 1>>, FALSE, "Config", TRUE, <<>>)
    ELSE Ln(1, TRUE, <<4, i>>, TRUE, "Processing_Router", TRUE, <<>>)

OrphanTexts ==
    {[i \in 1..n |-> OrphanLine(kinds[i], i)] :
        n \in 0..MaxOrphans, kinds \in [1..MaxOrphans -> {"layer", "object"}]}

InitValidate ==
    /\ file \in OrphanTexts
    /\ entities = [p \in Procs |-> <<>>]
    /\ fs = NoFs
    /\ hist = [nops |-> 0, last |-> NoCall, prev |-> NoCall,
               pre |-> [file |-> file, entities |-> <<>>, fs |-> fs],
               pre2 |-> [file |-> file, entities |-> <<>>, fs |-> fs]]
    /\ proc = [p \in Procs |-> IdleProc]

NextValidate == Analyze \/ Validate

SpecValidate == InitValidate /\ [][NextValidate]_vars

\* ------------------------------------------------------------------ parsing
\* SpecParse: the parser on texts that mix entity lines of every shape with
\* lines it skips.
\* "│   ├── 4.2 📁 Processing_Router/          # comment"
O42c == Ln(1, TRUE, <<4, 2>>, TRUE, "Processing_Router", TRUE, <<"comment">>)
\* "├── 7 /": a name that normalises to nothing
NoName7 == Ln(0, TRUE, <<7>>, FALSE, "", TRUE, <<>>)
\* "│   │   │   ├── 4.2.1.1 Deep/": four components
Deep4211 == Ln(3, TRUE, <<4, 2, 1, 1>>, FALSE, "Deep", TRUE, <<>>)
\* "├── 0 📁 Zero_Domain/": a component equal to zero
Zero0 == Ln(0, TRUE, <<0>>, TRUE, "Zero_Domain", TRUE, <<>>)

\* "│   ├── 4.3 Toolbox/": two components, no 📁
P43 == Ln(1, TRUE, <<4, 3>>, FALSE, "Toolbox", TRUE, <<>>)

ParseAlphabet ==
    {D4, O42c, L421, P43, Bare5, ReadmeLine, NoName7, Deep4211, Zero0}

ParseTexts == UNION {[1..n -> ParseAlphabet] : n \in 0..(MaxLines + 1)}

InitParse ==
    /\ file \in ParseTexts
    /\ entities = [p \in Procs |-> <<>>]
    /\ fs = NoFs
    /\ hist = [nops |-> 0, last |-> NoCall, prev |-> NoCall,
               pre |-> [file |-> file, entities |-> <<>>, fs |-> fs],
               pre2 |-> [file |-> file, entities |-> <<>>, fs |-> fs]]
    /\ proc = [p \in Procs |-> IdleProc]

NextParse == Analyze

SpecParse == InitParse /\ [][NextParse]_vars

\* ---------------------------------------------------------------- insertion
\* SpecInsert: Insert on texts where the target Domain is followed by a
\* sibling Domain, drawn with a branch glyph or written as a bare number.
D6 == Ln(0, TRUE, <<6>>, TRUE, "Other_Domain", TRUE, <<>>)
\* "6 Other_Domain/": a line without a branch glyph
Bare6 == Ln(0, FALSE, <<6>>, FALSE, "Other_Domain", TRUE, <<>>)

InsertAlphabet == {D5, D6, Bare5, Bare6}

InsertTexts == UNION {[1..n -> InsertAlphabet] : n \in 0..(MaxLines + 1)}

InitInsert ==
    /\ file \in InsertTexts
    /\ entities = [p \in Procs |-> <<>>]
    /\ fs = NoFs
    /\ hist = [nops |-> 0, last |-> NoCall, prev |-> NoCall,
               pre |-> [file |-> file, entities |-> <<>>, fs |-> fs],
               pre2 |-> [file |-> file, entities |-> <<>>, fs |-> fs]]
    /\ proc = [p \in Procs |-> IdleProc]

NextInsert == Add

SpecInsert == InitInsert /\ [][NextInsert]_vars

\* ------------------------------------------------------------------ claims
Last == hist.last

Prev == hist.prev

Succeeded(call) == call.res.returned /\ call.res.success

\* a failed result: a result value with success = false and an error
FailedResult(call) == call.res.returned /\ ~call.res.success /\ call.res.error

Numbers(ents) == {ents[i].number : i \in 1..Len(ents)}

PathSet(ents) == {construct_directory_path(ents, ents[i]) : i \in 1..Len(ents)}

CountOf(ents, type) == Cardinality({i \in 1..Len(ents) : ents[i].type = type})

\* C1: after every successful Insert or Remove the entity graph equals the
\* parse of the canonical text as it now stands.
C1_GraphIsImageOfText ==
    (Last.op \in {"add", "remove"} /\ Succeeded(Last))
        => entities[Server] = parse_holy_tree(file)

\* C2: a second generate("incremental") directly after a first one, on the
\* same text, creates no directory and leaves the directory tree as it was.
C2_IncrementalIdempotent ==
    (/\ Last.op = "generate" /\ Last.mode = "incremental"
     /\ Prev.op = "generate" /\ Prev.mode = "incremental")
        => /\ Last.res.created = <<>>
           /\ fs = hist.pre.fs

C2_Witness ==
    /\ Last.op = "generate" /\ Last.mode = "incremental" /\ Last.res.success
    /\ Prev.op = "generate" /\ Prev.mode = "incremental"
    /\ Len(Prev.res.created) >= 2

\* C3: Insert(X) then Remove(X, "delete"), X not in the text before, leaves
\* the parsed entity count, the set of entity paths and the directories
\* under the generation root as they were before the Insert. (Read with
\* leniency: project_root and the directories of entities that were in the
\* text before the Insert may have been created by the Insert's
\* reconciliation pass.)
C3_InsertRemoveInverse ==
    (/\ Prev.op = "add" /\ Succeeded(Prev)
     /\ Last.op = "remove" /\ Last.mode = "delete" /\ Succeeded(Last)
     /\ Last.name = Prev.cfg.entity_name
     /\ \A k \in 1..Len(hist.pre2.file) : ~NameIn(hist.pre2.file[k], Last.name))
        => LET before == parse_holy_tree(hist.pre2.file)
               after == parse_holy_tree(file)
           IN  /\ Len(after) = Len(before)
               /\ PathSet(after) = PathSet(before)
               /\ fs.dirs \ hist.pre2.fs.dirs
                      \subseteq {<<>>} \cup UNION {Prefixes(p) : p \in PathSet(before)}

\* The text a mutation leaves when it runs alone on the text f.
EditAlone(f, call) ==
    IF call.op = "add"
    THEN add_entity_to_holy_tree(f, <<>>, NoFs, call.cfg).file
    ELSE remove_entity_from_holy_tree(f, <<>>, NoFs, call.name, call.mode).file

IsMutation(call) == call.op \in {"add", "remove"}

\* C4: the read-modify-write of one mutation excludes that of every other,
\* so once two concurrent mutations have both returned success the text is
\* what the two leave when they run one after the other, in one of the two
\* orders: no edit is lost.
C4_NoLostEdit ==
    \A p, q \in Procs :
        (/\ p # q
         /\ proc[p].pc = "done" /\ IsMutation(proc[p].call) /\ Succeeded(proc[p].call)
         /\ proc[q].pc = "done" /\ IsMutation(proc[q].call) /\ Succeeded(proc[q].call))
            => file \in {EditAlone(EditAlone(hist.pre.file, proc[p].call), proc[q].call),
                         EditAlone(EditAlone(hist.pre.file, proc[q].call), proc[p].call)}

\* C5: no parse reads the canonical file while a mutation of another
\* process is between the start and the end of its write.
C5_NoReadInWriteWindow == \A p \in Procs : proc[p].overlap = {}

\* The line Remove matches: the first one with the name and a marker.
MatchedLine(lines, entity_name) ==
    CHOOSE k \in 1..Len(lines) :
        /\ IsEntityStart(lines[k], entity_name)
        /\ \A j \in 1..(k - 1) : ~IsEntityStart(lines[j], entity_name)

\* A Domain line: its leading number is a top-level integer.
IsDomainLine(l) == Len(l.num) = 1

NonBlank(lines) == SelectSeq(lines, LAMBDA l : ~IsBlank(l))

\* The first Domain line after line k, Len(lines) + 1 when there is none.
NextDomainLine(lines, k) ==
    LET later == {j \in (k + 1)..Len(lines) : IsDomainLine(lines[j])}
    IN  IF later = {} THEN Len(lines) + 1
        ELSE CHOOSE j \in later : \A i \in later : j <= i

C7_RemoveObjectOnly ==
    (/\ Last.op = "remove" /\ Succeeded(Last)
     /\ LET old == hist.pre.file
            obj == parse_ascii_line(old[MatchedLine(old, Last.name)], <<>>)
        IN  /\ ~obj.none /\ obj.type = "object"
            /\ \A i, j \in 1..Len(old) :
                   (i # j /\ old[i].num # <<>>) => old[i].num # old[j].num)
        => LET old == hist.pre.file
               obj == parse_ascii_line(old[MatchedLine(old, Last.name)], <<>>)
               before == parse_holy_tree(old)
               after == parse_holy_tree(file)
               own == {n \in Numbers(before) : IsPrefix(obj.number, n)}
           IN  /\ Numbers(after) = Numbers(before) \ own
               /\ CountOf(after, "object") = CountOf(before, "object") - 1
               /\ CountOf(after, "layer") =
                      CountOf(before, "layer") - (Cardinality(own) - 1)

\* C8: a rejected mutation (Insert with an empty required field, Remove of
\* a name no line matches) returns a failed result and changes nothing.
C8_RejectedChangesNothing ==
    (\/ /\ Last.op = "add"
        /\ \/ Last.cfg.entity_name = ""
           \/ Last.cfg.domain = ""
           \/ Last.cfg.proposed_number = <<>>
     \/ /\ Last.op = "remove"
        /\ \A k \in 1..Len(hist.pre.file) :
               ~(NameIn(hist.pre.file[k], Last.name)
                 /\ (hist.pre.file[k].folder \/ hist.pre.file[k].slash)))
        => /\ FailedResult(Last)
           /\ file = hist.pre.file
           /\ entities[Server] = hist.pre.entities
           /\ fs = hist.pre.fs

C8_Witness ==
    /\ Last.op = "remove" /\ FailedResult(Last)
    /\ Prev.op = "add" /\ Prev.cfg.domain = "" /\ FailedResult(Prev)
    /\ Len(file) = MaxLines /\ fs.dirs # {}

\* C9: Insert with every required field and a domainName no line refers to
\* returns a failed result and does not write the canonical file.
C9_UnknownDomainFails ==
    (/\ Last.op = "add"
     /\ Last.cfg.entity_name # "" /\ Last.cfg.domain # ""
     /\ Last.cfg.proposed_number # <<>>
     /\ \A k \in 1..Len(hist.pre.file) :
            ~DomainSlashIn(hist.pre.file[k], Last.cfg.domain))
        => FailedResult(Last) /\ file = hist.pre.file

\* The entity the graph holds for the line Insert added, when it holds it.
Inserted(call) == parse_ascii_line(ascii_line_of(call.cfg), <<>>)

InsertedInGraph(call) ==
    \E i \in 1..Len(entities[Server]) :
        /\ entities[Server][i].number = call.cfg.proposed_number
        /\ entities[Server][i].name = Inserted(call).name

InsertedPath(call) ==
    LET i == CHOOSE i \in 1..Len(entities[Server]) :
                 entities[Server][i].number = call.cfg.proposed_number
    IN  construct_directory_path(entities[Server], entities[Server][i])

C11_ValidateMutatesNothing ==
    (\/ Last.op = "generate" /\ Last.mode = "validate"
     \/ Last.op = "validate")
        => fs = hist.pre.fs /\ file = hist.pre.file

C11_Witness ==
    /\ Last.op = "generate" /\ Last.mode = "validate"
    /\ Len(Last.res.missing) >= 2
    /\ \E p \in fs.dirs : p # <<>>

\* C12: after generate("full") succeeds the directory tree equals what
\* incremental mode produces from an empty root, so a directory that was
\* there before and belongs to no entity of the graph is gone. (project_root
\* itself is left out of the comparison.)
C12_FullStartsFromEmptyRoot ==
    (Last.op = "generate" /\ Last.mode = "full" /\ Succeeded(Last))
        => fs.dirs \ {<<>>} =
               generate_project_from_holy_tree(file, NoFs, "incremental").fs.dirs \ {<<>>}

\* Every entity of the graph resolves to a path of as many segments as its
\* level.
WellFormed(ents) ==
    \A i \in 1..Len(ents) :
        Len(construct_directory_path(ents, ents[i])) = ents[i].level

FromEmptyRoot(call) ==
    /\ call.op = "generate" /\ call.mode = "incremental" /\ Succeeded(call)
    /\ hist.pre.fs = NoFs

MadeBeforeStop(call) ==
    LET g == GenFrom(parse_holy_tree(hist.pre.file), 1, call.mode, hist.pre.fs,
                     <<>>, <<>>)
    IN  {g.created[i] : i \in 1..Len(g.created)}

FailedPass(call) ==
    /\ call.op = "generate" /\ call.mode \in {"incremental", "full"}
    /\ call.res.returned /\ ~call.res.success

\* C14: when a creation fails partway through a generate pass the result
\* has success = false and carries the error, and every directory made
\* earlier in the pass, like every directory that was there before, still
\* exists.
C14_NoRollback ==
    FailedPass(Last)
        => /\ Last.res.error
           /\ MadeBeforeStop(Last) \subseteq fs.dirs
           /\ hist.pre.fs.dirs \subseteq fs.dirs

C14_Witness ==
    /\ FailedPass(Last)
    /\ \E p \in MadeBeforeStop(Last) : p # <<>> /\ p \notin hist.pre.fs.dirs

\* The directory the graph held, before the Remove, for the entity of the
\* line the Remove matched; <<>> when the graph did not hold that entity.
RemovedPath(call) ==
    LET old == hist.pre.file
        ents == hist.pre.entities
        l == old[MatchedLine(old, call.name)]
        hit == {i \in 1..Len(ents) : ents[i].ascii_line = l}
    IN  IF hit = {} THEN <<>>
        ELSE construct_directory_path(ents, ents[CHOOSE i \in hit : TRUE])

\* C15: after a successful Remove of an entity whose resolved directory
\* exists, "delete" leaves no directory at that path, "archive" leaves none
\* there and one under the archive root, "preserve" leaves it in place; the
\* edit of the text is the same in the three modes.
C15_CleanupModeEffect ==
    (/\ Last.op = "remove" /\ Succeeded(Last)
     /\ RemovedPath(Last) # <<>>
     /\ RemovedPath(Last) \in hist.pre.fs.dirs)
        => /\ file = remove_lines(hist.pre.file, Last.name)
           /\ Last.mode = "delete" => RemovedPath(Last) \notin fs.dirs
           /\ Last.mode = "archive" =>
                  /\ RemovedPath(Last) \notin fs.dirs
                  /\ ArchivePath(Last.name) \in fs.dirs
           /\ Last.mode = "preserve" => RemovedPath(Last) \in fs.dirs

\* The validator's missing-parent condition for the entity e of the graph.
MissingParent(ents, e) ==
    e.level > 1 /\ get_entity_by_number(ents, ParentNumber(e.number)).none

\* "no path": the resolver's result has no segment (it is project_root).
NoPath(ents, e) == construct_directory_path(ents, e) = <<>>

Range(seq) == {seq[i] : i \in 1..Len(seq)}

\* C16: the resolver gives "no path" for an entity exactly when the
\* validator reports a missing parent for it, and reconciliation creates or
\* reports no directory for an entity with a missing parent.
C16_ResolverAgreesWithValidator ==
    LET ents == entities[Server]
    IN  /\ (Last.op = "validate" /\ Last.res.returned)
               => \A i \in 1..Len(ents) :
                      NoPath(ents, ents[i])
                          <=> MissingParentIssue(ents[i].number) \in Range(Last.res.issues)
        /\ (Last.op = "generate" /\ Last.mode \in {"incremental", "full"}
            /\ Succeeded(Last))
               => \A i \in 1..Len(ents) :
                      MissingParent(ents, ents[i])
                          => construct_directory_path(ents, ents[i])
                                 \notin Range(Last.res.created)

\* No missing parent on the entity e or on any of its ancestors: every
\* proper prefix of its number is the number of an entity of the graph.
AncestorsPresent(ents, e) ==
    \A k \in 1..(Len(e.number) - 1) : SubSeq(e.number, 1, k) \in Numbers(ents)

\* C17: for every parsed entity with no structural issue on itself or on an
\* ancestor, path resolution succeeds and the path has as many segments as
\* the entity's level.
C17_PathSegmentsEqualLevel ==
    LET ents == entities[Server]
    IN  \A i \in 1..Len(ents) :
            AncestorsPresent(ents, ents[i])
                => /\ ~NoPath(ents, ents[i])
                   /\ Len(construct_directory_path(ents, ents[i])) = ents[i].level

\* The issues the claim expects of a graph: one, in graph order, for each
\* entity of level > 1 whose parent number is absent.
ExpectedMissingParents(ents) ==
    LET orphans == SelectSeq(ents, LAMBDA e : MissingParent(ents, e))
    IN  [i \in 1..Len(orphans) |->
            [kind |-> "missing_parent", number |-> orphans[i].number,
             parent |-> SubSeq(orphans[i].number, 1, Len(orphans[i].number) - 1)]]

\* C18: the validator reports one missing-parent issue for each entity of
\* level > 1 whose parent number is absent and for no other entity; a
\* graph of Layer 4.2.1 alone gives exactly that one issue and score 90.
C18_MissingParentIssues ==
    Last.op = "validate"
        => /\ Last.res.returned
           /\ SelectSeq(Last.res.issues, LAMBDA x : x.kind = "missing_parent")
                  = ExpectedMissingParents(entities[Server])
           /\ Numbers(entities[Server]) = {<<4, 2, 1>>}
                  => /\ Len(Last.res.issues) = 1
                     /\ Last.res.score = 90

\* C19: structural validation returns a report for every graph, graphs with
\* level-1 entities included: it never raises, and valid is true exactly
\* when issues is empty.
C19_ValidatorAlwaysReports ==
    Last.op = "validate"
        => /\ Last.res.returned /\ ~Last.res.error
           /\ Last.res.success <=> Last.res.issues = <<>>

\* C20: integrityScore is max(0, 100 - 10 * issueCount): never negative,
\* and 0 from 10 issues on.
C20_IntegrityScoreFloor ==
    (Last.op = "validate" /\ Last.res.returned)
        => /\ Last.res.score = Max(0, 100 - 10 * Len(Last.res.issues))
           /\ Last.res.score >= 0
           /\ Len(Last.res.issues) >= 10 => Last.res.score = 0

\* The lines of the text that give an entity.
EntityLines(lines) == {i \in 1..Len(lines) : ~parse_ascii_line(lines[i], <<>>).none}

HasDuplicateNumber(lines) ==
    \E i, j \in EntityLines(lines) : i < j /\ lines[i].num = lines[j].num

\* C21: when two entity lines of the parsed text carry the same number, the
\* validation report holds a duplicate-number issue and valid is false.
\* (Stated of the calls that return a report.)
C21_DuplicateNumbersFlagged ==
    (/\ Last.op = "validate" /\ Last.res.returned
     /\ entities[Server] = parse_holy_tree(file)
     /\ HasDuplicateNumber(file))
        => /\ ~Last.res.success
           /\ \E x \in Range(Last.res.issues) : x.kind = "duplicate_number"

\* The rule table: what the number's shape and the folder glyph give.
KindRule(components, folder) ==
    IF components = 1 /\ folder THEN "domain"
    ELSE IF components >= 2 /\ folder THEN "object"
    ELSE "layer"

\* C22: the kind of every parsed entity is what the rule table gives for
\* the number of components of its number and the presence of the folder
\* glyph on its line, and depends on nothing else.
C22_KindFollowsRuleTable ==
    \A i \in 1..Len(entities[Server]) :
        LET e == entities[Server][i]
        IN  e.type = KindRule(Len(e.number), e.ascii_line.folder)

C22_Witness ==
    /\ Last.op = "analyze"
    /\ \E i, j \in 1..Len(entities[Server]) :
           /\ entities[Server][i].type = "layer" /\ entities[Server][i].level = 2
           /\ entities[Server][j].type = "object" /\ entities[Server][j].level = 2

\* A line the parser excludes: no branch glyph, no leading dotted number,
\* or a name that normalises to nothing.
BadLine(l) == ~l.glyph \/ l.num = <<>> \/ NameWords(l) = <<>>

GoodLines(lines) == SelectSeq(lines, LAMBDA l : ~BadLine(l))

\* C23: parsing never aborts on a bad line: the bad lines are excluded and
\* the entities of the other lines are those of the text with the bad
\* lines deleted, one for each number those lines carry.
C23_BadLinesSkipped ==
    Last.op = "analyze"
        => /\ Succeeded(Last)
           /\ entities[Server] = parse_holy_tree(GoodLines(file))
           /\ Numbers(entities[Server]) = {l.num : l \in Range(GoodLines(file))}
           /\ \A i \in 1..Len(entities[Server]) :
                  ~BadLine(entities[Server][i].ascii_line)

C23_Witness ==
    /\ Last.op = "analyze"
    /\ Len(file) = 3 /\ BadLine(file[2]) /\ file[2].glyph
    /\ Len(entities[Server]) = 2
    /\ entities[Server][2].parent_path # <<>>

\* C24: the name of a parsed entity is its label only and holds nothing of
\* the trailing comment; "├── 4.2 📁 Processing_Router/   # comment" gives
\* name Processing_Router, kind Object, number 4.2, level 2.
C24_NameIsLabelOnly ==
    \A i \in 1..Len(entities[Server]) :
        LET e == entities[Server][i]
        IN  /\ e.name = <<e.ascii_line.label>>
            /\ e.ascii_line = O42c
                   => /\ e.name = <<"Processing_Router">>
                      /\ e.type = "object" /\ e.number = <<4, 2>> /\ e.level = 2

\* The dots in the number as the text writes it: one between every two
\* neighbouring components.
DotCount(number) == Len(number) - 1

\* C25 as stated: for every parsed entity the dot-count of its number
\* equals its level.
C25_DotCountIsLevel ==
    \A i \in 1..Len(entities[Server]) :
        DotCount(entities[Server][i].number) = entities[Server][i].level

\* C25 amended: for every parsed entity the level is the number of
\* dot-separated components of its number, its dot-count plus one.
C25_ComponentCountIsLevel ==
    \A i \in 1..Len(entities[Server]) :
        /\ entities[Server][i].level = Len(entities[Server][i].number)
        /\ entities[Server][i].level = DotCount(entities[Server][i].number) + 1

C25_Witness ==
    /\ Last.op = "analyze"
    /\ {entities[Server][i].level : i \in 1..Len(entities[Server])} = {1, 2, 3}
    /\ entities[Server][1].level = 3

\* C26 as stated: every entity of the graph has a number of 1 to 3
\* components, each a positive integer, so no entity has a level above 3.
C26_OneToThreePositive ==
    \A i \in 1..Len(entities[Server]) :
        LET number == entities[Server][i].number
        IN  /\ Len(number) \in 1..3
            /\ \A k \in 1..Len(number) : number[k] > 0
            /\ entities[Server][i].level <= 3

\* C26 amended: every entity of the graph has a number of one or more
\* components, each a run of digits; neither the count of components nor
\* the value zero is checked, and every line with a glyph, a number and a
\* name gives an entity of its number, whatever the number.
C26_AnyDottedNumberAccepted ==
    /\ \A i \in 1..Len(entities[Server]) :
           /\ Len(entities[Server][i].number) >= 1
           /\ \A k \in 1..Len(entities[Server][i].number) :
                  entities[Server][i].number[k] \in Nat
    /\ Last.op = "analyze"
           => \A l \in Range(GoodLines(file)) : l.num \in Numbers(entities[Server])

C26_Witness ==
    /\ Last.op = "analyze"
    /\ \E i, j \in 1..Len(entities[Server]) :
           /\ entities[Server][i].level = 4
           /\ entities[Server][j].number = <<0>>

ValidatePass(call) == call.op = "generate" /\ call.mode = "validate"

ScoreOf(missing) == Max(0, 100 - 5 * Len(missing))

ObjectInserted(call) ==
    call.op = "add" /\ Succeeded(call) /\ Len(call.cfg.proposed_number) = 2

\* The lines Insert builds for the Object of the call: the Object line,
\* then the Layer lines in declared order.
NewLines(call) ==
    <<ObjectLine(call.cfg)>>
        \o [i \in 1..Len(call.cfg.layers) |->
               [ind |-> 2, glyph |-> TRUE, num |-> Append(call.cfg.proposed_number, i),
                folder |-> FALSE, label |-> call.cfg.layers[i], slash |-> TRUE,
                cmt |-> <<"Layer", ToString(i), call.cfg.layers[i]>>]]

\* The text is `old` with the new lines of the call put in after line j.
SplicedAfter(old, call, j) ==
    file = SubSeq(old, 1, j) \o NewLines(call) \o SubSeq(old, j + 1, Len(old))

\* The first line of the text that is the target Domain's, 0 when none.
TargetDomainLine(lines, domain) ==
    LET hits == {d \in 1..Len(lines) :
                     IsDomainLine(lines[d]) /\ DomainSlashIn(lines[d], domain)}
    IN  IF hits = {} THEN 0 ELSE CHOOSE d \in hits : \A x \in hits : d <= x

\* The first Domain line of another number after line d, 0 when none.
SiblingDomainLine(lines, d) ==
    LET hits == {k \in (d + 1)..Len(lines) :
                     IsDomainLine(lines[k]) /\ lines[k].num # lines[d].num}
    IN  IF hits = {} THEN 0 ELSE CHOOSE k \in hits : \A x \in hits : k <= x

\* C28: when the text holds the target Domain's line and a later sibling
\* Domain line, the inserted Object line ends up after the target Domain's
\* line and before that next Domain line.
C28_InsertInsideDomainBlock ==
    LET old == hist.pre.file
        d == TargetDomainLine(old, Last.cfg.domain)
        k == IF d = 0 THEN 0 ELSE SiblingDomainLine(old, d)
    IN  (ObjectInserted(Last) /\ d # 0 /\ k # 0)
            => \E j \in d..(k - 1) : SplicedAfter(old, Last, j)

\* The numbers of the Object of the call and of its Layers.
NewNumbers(call) ==
    {call.cfg.proposed_number}
        \cup {Append(call.cfg.proposed_number, i) : i \in 1..Len(call.cfg.layers)}

IncrementalPass(call) ==
    call.op = "generate" /\ call.mode = "incremental" /\ Succeeded(call)

\* C30: a validate pass that follows a successful generate("incremental")
\* on the same text reports no missing directory: the project structure is
\* valid and the score is 100, whatever the text and the filesystem the
\* generate started from.
C30_IncrementalThenValidateClean ==
    (IncrementalPass(Prev) /\ ValidatePass(Last) /\ hist.pre2.file = file)
        => /\ Last.res.missing = <<>>
           /\ Last.res.success
           /\ Last.res.score = 100

\* The incremental pass made at least two directories, one of them a
\* Layer's, and the validate pass came right after it.
C30_Witness ==
    /\ IncrementalPass(Prev)
    /\ ValidatePass(Last)
    /\ hist.pre2.file = file
    /\ Len(Prev.res.created) >= 2
    /\ \E p \in Range(Prev.res.created) : Len(p) = 3
====
